---- MODULE Spec2Model ----
(***************************************************************************)
(* Model of the ipfs-cluster peer monitor:                                 *)
(*   monitor/util/metrics_checker.go   MetricsChecker (CheckMetrics, alert,*)
(*                                     Alerts, Watch)                      *)
(*   monitor/pubsubmon/pubsubmon.go    Monitor (New, run, logFromPubsub,   *)
(*                                     SetClient, Shutdown, LogMetric,     *)
(*                                     PublishMetric, getPeers,            *)
(*                                     LatestMetrics)                      *)
(* The MetricStore, api.Metric (Expired, Discard) and util.PeersetFilter   *)
(* are not among the sources; they are modelled from the written           *)
(* specification (sections 3, 4.1 and 4.3).                                *)
(***************************************************************************)
EXTENDS Integers, Sequences, FiniteSets, TLC

\* ------------------------------------------------------------------ bounds
\* The clock runs from 0 to MaxTime.
MaxTime == 1
\* Total number of metrics.Add calls in one behaviour.
MaxAdds == 2
\* Capacity of the alert channel.  The source sets 256
\* (metrics_checker.go:14, a package variable); the model scales it down so
\* that the channel fills.
AlertChannelCap == 2
\* Number of Shutdown() calls and of SetClient() calls in one behaviour.
NumShutdown == 2
NumSetClient == 2
\* Number of payloads published in one behaviour.
MaxPublish == 1

\* ------------------------------------------------------------------ data
Peers == {"p1", "p2"}
Kinds == {"ping", "disk"}
TTLs  == {1}

Metric == [Name : Kinds, Peer : Peers, Valid : BOOLEAN, Expire : 0..(MaxTime + 2)]
Alert  == [Peer : Peers, MetricName : Kinds]

ErrAlertChannelFull == "alert channel is full"
ErrEncode == "encode error"
ErrPublish == "publish error"
NoErr == "nil"

\* Peer lists ([]peer.ID): sequences, duplicates allowed.
PeerLists == UNION {[1..n -> Peers] : n \in 0..Cardinality(Peers)}
NoDup(s) == \A i, j \in 1..Len(s) : s[i] = s[j] => i = j
Range(s) == {s[i] : i \in 1..Len(s)}
\* The orders in which a Go map of kinds may be iterated.
KindOrders == {o \in [1..Cardinality(Kinds) -> Kinds] : \A i, j \in 1..Cardinality(Kinds) : o[i] = o[j] => i = j}

\* No direct CheckMetrics call is returning.
NoCall ==
  [pending |-> FALSE, peers |-> <<>>, ord |-> [p \in Peers |-> <<>>], before |-> <<>>,
   err |-> NoErr, seen |-> 0]
\* No PublishMetric call, no LatestMetrics call is returning.
NoPublish == [pending |-> FALSE]
NoLatest == [pending |-> FALSE]

VARIABLES
  now,          \* the wall clock
  metrics,      \* MetricStore: peer -> kind -> window (oldest first)
  nAdds,        \* number of Add calls so far (bounded by MaxAdds)
  lastAdded,    \* per peer and kind, the metric handed to the store last
  alertCh,      \* MetricsChecker.alertCh, a buffered channel
  ck,           \* a direct CheckMetrics call that is returning: its arguments,
                \* the channel before it and its result
  resolver,     \* what peersF / ConsensusPeers answers now: [peers, err]
  ctxDone,      \* the context is cancelled
  watchPc,      \* MetricsChecker.Watch: "off", "select", "done"
  rpcClient,    \* Monitor.rpcClient: "nil" or a client
  rpcReady,     \* Monitor.rpcReady: [buf |-> 0..1, closed |-> BOOLEAN]
  shutdown,     \* Monitor.shutdown
  shutdownLock, \* Monitor.shutdownLock: 0 or the caller holding it
  sdPc,         \* each Shutdown() call's position; the calls are numbered in
                \* the order in which they take the lock
  scPc,         \* each SetClient() call's position; the calls are numbered in
                \* the order in which they begin
  runPc,        \* Monitor.run
  logPc,        \* Monitor.logFromPubsub
  tearLog,      \* the teardown steps executed so far, with their caller
  fault,        \* a runtime panic, "none" while the process lives
  topic,        \* the payloads published on PubsubTopic, oldest first
  pub,          \* a PublishMetric call that is returning: its argument, the
                \* topic before it and the error returned
  lat,          \* a LatestMetrics call that is returning: its argument, the
                \* answer of ConsensusPeers and the metrics returned
  recvLog,      \* history of the receive loop: "none", "bad" once a payload
                \* failed to decode, "stored" once a later one was stored
  tickLog       \* history of a Watch loop run on its own: "none", "skipped"
                \* once a tick met a failing resolver, "again" once a later
                \* tick got a peer list

storeVars == <<metrics, nAdds, lastAdded>>
chkVars   == <<alertCh, ck>>
watchVars == <<ctxDone, watchPc>>
monVars   == <<rpcClient, rpcReady, shutdown, shutdownLock, sdPc, scPc, runPc, logPc, tearLog, fault>>
apiVars   == <<topic, pub, lat>>
histVars  == <<recvLog, tickLog>>
vars == <<now, metrics, nAdds, lastAdded, alertCh, ck, resolver, ctxDone, watchPc,
          rpcClient, rpcReady, shutdown, shutdownLock, sdPc, scPc, runPc, logPc, tearLog, fault,
          topic, pub, lat, recvLog, tickLog>>

\* ------------------------------------------------- api.Metric, MetricStore
\* Metric.Expired(): true when the current time is at or past ExpiresAt.
Expired(m, t) == t >= m.Expire

\* Metric.SetTTL at time t.
NewMetric(name, peer, valid, ttl, t) ==
  [Name |-> name, Peer |-> peer, Valid |-> valid, Expire |-> t + ttl]

\* The fixed per (peer, kind) history window of the store.
WindowCap == 2

NewMetricStore == [p \in Peers |-> [k \in Kinds |-> <<>>]]

\* Window add: append, evicting the oldest entry beyond the cap.
WindowAdd(w, m) ==
  IF Len(w) >= WindowCap THEN Append(Tail(w), m) ELSE Append(w, m)

WindowLatest(w) == w[Len(w)]

\* MetricStore.Add
StoreAdd(st, m) == [st EXCEPT ![m.Peer][m.Name] = WindowAdd(@, m)]

\* Latest as it would be without the expiry test.
StoreLatestNoExpiry(st, name, t) ==
  {WindowLatest(st[p][name]) : p \in {q \in Peers : st[q][name] # <<>>}}

\* MetricStore.Latest(kind): the newest metric of each peer, unless expired.
StoreLatest(st, name, t) ==
  {WindowLatest(st[p][name]) : p \in {q \in Peers : st[q][name] # <<>> /\ ~Expired(WindowLatest(st[q][name]), t)}}

\* MetricStore.PeerMetrics(peer): the newest metric of each kind, expired or
\* not, in the order ord of the kinds.
StorePeerMetrics(st, p, ord) ==
  LET ks == SelectSeq(ord, LAMBDA k : st[p][k] # <<>>)
  IN  [i \in 1..Len(ks) |-> WindowLatest(st[p][ks[i]])]

\* --------------------------------------------------------- MetricsChecker
NewMetricsChecker == <<>>

\* alert as it would be with a send that always goes through.
alertUnbounded(ch, pid, metricName) ==
  [ch |-> Append(ch, [Peer |-> pid, MetricName |-> metricName]), err |-> NoErr]

\* alert as it would be if it held back an alert the channel holds already.
alertDedup(ch, pid, metricName) ==
  IF \E i \in 1..Len(ch) : ch[i] = [Peer |-> pid, MetricName |-> metricName]
    THEN [ch |-> ch, err |-> NoErr]
    ELSE IF Len(ch) < AlertChannelCap
      THEN [ch |-> Append(ch, [Peer |-> pid, MetricName |-> metricName]), err |-> NoErr]
      ELSE [ch |-> ch, err |-> ErrAlertChannelFull]

\* MetricsChecker.alert: a non-blocking send on alertCh.
alert(ch, pid, metricName) ==
  IF Len(ch) < AlertChannelCap
    THEN [ch |-> Append(ch, [Peer |-> pid, MetricName |-> metricName]), err |-> NoErr]
    ELSE [ch |-> ch, err |-> ErrAlertChannelFull]

\* The inner loop as it would be without the test of metric.Valid.
RECURSIVE CheckPeerNoValid(_, _, _, _)
CheckPeerNoValid(ms, ch, t, seen) ==
  IF ms = <<>> THEN [ch |-> ch, err |-> NoErr, seen |-> seen]
  ELSE LET metric == Head(ms) IN
       IF Expired(metric, t)
         THEN LET r == alert(ch, metric.Peer, metric.Name) IN
              IF r.err # NoErr
                THEN [ch |-> r.ch, err |-> r.err, seen |-> seen + 1]
                ELSE CheckPeerNoValid(Tail(ms), r.ch, t, seen + 1)
         ELSE CheckPeerNoValid(Tail(ms), ch, t, seen + 1)

\* The inner loop of CheckMetrics over one peer's metrics ms.  seen counts the
\* metrics examined.
RECURSIVE CheckPeer(_, _, _, _)
CheckPeer(ms, ch, t, seen) ==
  IF ms = <<>> THEN [ch |-> ch, err |-> NoErr, seen |-> seen]
  ELSE LET metric == Head(ms) IN
       IF metric.Valid /\ Expired(metric, t)
         THEN LET r == alert(ch, metric.Peer, metric.Name) IN
              IF r.err # NoErr
                THEN [ch |-> r.ch, err |-> r.err, seen |-> seen + 1]
                ELSE CheckPeer(Tail(ms), r.ch, t, seen + 1)
         ELSE CheckPeer(Tail(ms), ch, t, seen + 1)

\* The outer loop as it would be if the error of alert were logged and the
\* sweep went on with the next peer.
RECURSIVE CheckMetricsFromNoStop(_, _, _, _, _, _)
CheckMetricsFromNoStop(peers, st, ord, ch, t, seen) ==
  IF peers = <<>> THEN [ch |-> ch, err |-> NoErr, seen |-> seen]
  ELSE LET r == CheckPeer(StorePeerMetrics(st, Head(peers), ord[Head(peers)]), ch, t, seen) IN
       CheckMetricsFromNoStop(Tail(peers), st, ord, r.ch, t, r.seen)

\* MetricsChecker.CheckMetrics(peers) on store st at time t with the alert
\* channel holding ch; ord[p] is the order PeerMetrics(p) comes back in.
RECURSIVE CheckMetricsFrom(_, _, _, _, _, _)
CheckMetricsFrom(peers, st, ord, ch, t, seen) ==
  IF peers = <<>> THEN [ch |-> ch, err |-> NoErr, seen |-> seen]
  ELSE LET r == CheckPeer(StorePeerMetrics(st, Head(peers), ord[Head(peers)]), ch, t, seen) IN
       IF r.err # NoErr THEN r
       ELSE CheckMetricsFrom(Tail(peers), st, ord, r.ch, t, r.seen)

CheckMetrics(peers, st, ord, ch, t) == CheckMetricsFrom(peers, st, ord, ch, t, 0)

\* ------------------------------------------------------------ environment
\* Time passes.
Tick ==
  /\ fault = "none"
  /\ ~ck.pending /\ ~pub.pending /\ ~lat.pending
  /\ now < MaxTime
  /\ now' = now + 1
  /\ UNCHANGED <<apiVars, histVars, storeVars, chkVars, resolver, watchVars, monVars>>

\* The metrics a reporter can build at time t (Metric.SetTTL).
MetricInputs(t) ==
  {NewMetric(k, p, v, ttl, t) : k \in Kinds, p \in Peers, v \in BOOLEAN, ttl \in TTLs}

\* A direct metrics.Add(m), as the tests of the util package do.
Add(m) ==
  /\ fault = "none"
  /\ ~ck.pending
  /\ nAdds < MaxAdds
  /\ metrics' = StoreAdd(metrics, m)
  /\ nAdds' = nAdds + 1
  /\ lastAdded' = [lastAdded EXCEPT ![m.Peer][m.Name] = <<m>>]
  /\ UNCHANGED <<now, apiVars, histVars, chkVars, resolver, watchVars, monVars>>

\* A reader of Alerts() receives the oldest alert.
ReadAlert ==
  /\ fault = "none"
  /\ ~ck.pending
  /\ alertCh # <<>>
  /\ alertCh' = Tail(alertCh)
  /\ UNCHANGED <<now, apiVars, histVars, storeVars, ck, resolver, watchVars, monVars>>

\* ------------------------------------------- MetricsChecker, direct calls
\* checker.CheckMetrics(peers) called directly, as the tests of the package
\* do; ord is the order in which PeerMetrics returns each peer's metrics.  The
\* call and its return are two steps of the caller with nothing in between:
\* ck keeps the arguments, the channel as it was and the error returned.
CheckMetricsCall(peers, ord) ==
  /\ fault = "none"
  /\ ~ck.pending
  /\ LET r == CheckMetrics(peers, metrics, ord, alertCh, now) IN
       /\ alertCh' = r.ch
       /\ ck' = [pending |-> TRUE, peers |-> peers, ord |-> ord, before |-> alertCh,
                 err |-> r.err, seen |-> r.seen]
  /\ UNCHANGED <<now, apiVars, histVars, storeVars, resolver, watchVars, monVars>>

CheckMetricsReturn ==
  /\ fault = "none"
  /\ ck.pending
  /\ ck' = NoCall
  /\ UNCHANGED <<now, apiVars, histVars, storeVars, alertCh, resolver, watchVars, monVars>>

\* The peer-set source changes its answer (peers join or leave, the RPC
\* starts or stops failing).
ResolverResults ==
  {[peers |-> l, err |-> FALSE] : l \in PeerLists} \cup {[peers |-> <<>>, err |-> TRUE]}

ResolverSet(r) ==
  /\ fault = "none"
  /\ r # resolver
  /\ resolver' = r
  /\ UNCHANGED <<now, apiVars, histVars, storeVars, chkVars, watchVars, monVars>>

\* -------------------------------------------------- MetricsChecker.Watch
\* The ticker case as it would be if it never got to CheckMetrics.
WatchIterationSkip(res, ord, ch) == ch

\* The ticker case as it would be without the test of peersF's error.
WatchIterationNoErrTest(res, ord, ch) ==
  CheckMetrics(res.peers, metrics, ord, ch, now).ch

\* One pass of the ticker case: peersF(), then CheckMetrics unless it failed.
\* The result of CheckMetrics is dropped.
WatchIteration(res, ord, ch) ==
  IF res.err THEN ch
  ELSE CheckMetrics(res.peers, metrics, ord, ch, now).ch

\* checker.Watch(ctx, peersF, interval) is called: the ticker is created and
\* the loop reaches its select.
WatchCall ==
  /\ fault = "none"
  /\ watchPc = "off"
  /\ watchPc' = "select"
  /\ UNCHANGED <<now, apiVars, histVars, storeVars, chkVars, resolver, ctxDone, monVars>>

\* The ticker case as it would be with "return" for "continue" on an error
\* of peersF.
WatchTickReturnOnErr(ord) ==
  /\ fault = "none"
  /\ watchPc = "select"
  /\ alertCh' = WatchIteration(resolver, ord, alertCh)
  /\ watchPc' = IF resolver.err THEN "done" ELSE watchPc
  /\ UNCHANGED <<now, apiVars, recvLog, storeVars, ck, resolver, ctxDone, monVars>>

\* case <-ticker.C, with peersF a plain function answering resolver.  The
\* history tickLog is left to the specification: it is kept by WatchTickLogged
\* and left alone by WatchTickPlain.
WatchTick(ord) ==
  /\ fault = "none"
  /\ watchPc = "select"
  /\ alertCh' = WatchIteration(resolver, ord, alertCh)
  /\ UNCHANGED <<now, apiVars, recvLog, storeVars, ck, resolver, watchVars, monVars>>

WatchTickPlain(ord) == WatchTick(ord) /\ UNCHANGED tickLog

\* What a tick adds to the history of the loop.
TickLogged(res) ==
  IF res.err THEN (IF tickLog = "none" THEN "skipped" ELSE tickLog)
  ELSE (IF tickLog = "skipped" THEN "again" ELSE tickLog)

WatchTickLogged(ord) == WatchTick(ord) /\ tickLog' = TickLogged(resolver)

\* case <-ctx.Done(): ticker.Stop(); return
WatchReturn ==
  /\ fault = "none"
  /\ watchPc = "select"
  /\ ctxDone
  /\ watchPc' = "done"
  /\ UNCHANGED <<now, apiVars, histVars, storeVars, chkVars, resolver, ctxDone, monVars>>

\* The owner of the context handed to Watch cancels it (or it times out).
CtxCancel ==
  /\ fault = "none"
  /\ ~ctxDone
  /\ ctxDone' = TRUE
  /\ UNCHANGED <<now, apiVars, histVars, storeVars, chkVars, resolver, watchPc, monVars>>

\* ---------------------------------------------------------------- Monitor
\* The WaitGroup counter: the source never calls wg.Add, so it stays 0.
wg == 0

\* The wire codec (msgpack): a payload is the encoding of a metric or bytes
\* that do not decode.
Encode(m) == <<"msgpack", m>>
Garbage == <<"garbage">>
Decode(b) ==
  IF b[1] = "msgpack" THEN [err |-> FALSE, metric |-> b[2]]
  ELSE [err |-> TRUE, metric |-> <<>>]

\* LogMetric as it would be if it rejected invalid metrics.
LogMetricValidOnly(st, m) == IF m.Valid THEN StoreAdd(st, m) ELSE st

\* Monitor.LogMetric: stores the metric, whatever it is, and returns nil.
LogMetric(st, m) == StoreAdd(st, m)

\* The metrics remote peers publish.  A message can arrive after its metric
\* has expired (ttl 0 stands for a delivery slower than the ttl).
InboundMetrics(t) ==
  {NewMetric("ping", "p1", v, ttl, t) : v \in BOOLEAN, ttl \in {0, 1}}
\* The payloads the subscription hands to the receive loop when one peer
\* reports and the transport also carries bytes that are no metric.
LifeMetrics(t) == {NewMetric("ping", "p1", TRUE, 1, t)}
LifeInbound(t) == {Encode(m) : m \in LifeMetrics(t)} \cup {Garbage}

\* New(): go mon.run().  New returns at once; the goroutine reaches its
\* select when it is scheduled.
RunStart ==
  /\ fault = "none"
  /\ runPc = "start"
  /\ runPc' = "wait"
  /\ UNCHANGED <<now, apiVars, histVars, storeVars, chkVars, resolver, watchVars, rpcClient, rpcReady,
                 shutdown, shutdownLock, sdPc, scPc, logPc, tearLog, fault>>

\* run(): case <-mon.rpcReady.  A receive succeeds on a buffered value and on
\* a closed channel alike.
RunRecv ==
  /\ fault = "none"
  /\ runPc = "wait"
  /\ rpcReady.buf > 0 \/ rpcReady.closed
  /\ rpcReady' = [rpcReady EXCEPT !.buf = IF @ > 0 THEN @ - 1 ELSE 0]
  /\ runPc' = "go1"
  /\ UNCHANGED <<now, apiVars, histVars, storeVars, chkVars, resolver, watchVars, rpcClient, shutdown,
                 shutdownLock, sdPc, scPc, logPc, tearLog, fault>>

\* run(): case <-mon.ctx.Done()
RunCancelled ==
  /\ fault = "none"
  /\ runPc = "wait"
  /\ ctxDone
  /\ runPc' = "done"
  /\ UNCHANGED <<now, apiVars, histVars, storeVars, chkVars, resolver, watchVars, rpcClient, rpcReady, shutdown,
                 shutdownLock, sdPc, scPc, logPc, tearLog, fault>>

\* run(): go mon.logFromPubsub()
RunGoLog ==
  /\ fault = "none"
  /\ runPc = "go1"
  /\ logPc' = "loop"
  /\ runPc' = "go2"
  /\ UNCHANGED <<now, apiVars, histVars, storeVars, chkVars, resolver, watchVars, rpcClient, rpcReady, shutdown,
                 shutdownLock, sdPc, scPc, tearLog, fault>>

\* run() as it would be with its select in a loop.
RunGoWatchLoop ==
  /\ fault = "none"
  /\ runPc = "go2"
  /\ watchPc' = "select"
  /\ runPc' = "wait"
  /\ UNCHANGED <<now, apiVars, histVars, storeVars, chkVars, resolver, ctxDone, rpcClient, rpcReady, shutdown,
                 shutdownLock, sdPc, scPc, logPc, tearLog, fault>>

\* run(): go mon.checker.Watch(mon.ctx, mon.getPeers, interval)
RunGoWatch ==
  /\ fault = "none"
  /\ runPc = "go2"
  /\ watchPc' = "select"
  /\ runPc' = "done"
  /\ UNCHANGED <<now, apiVars, histVars, storeVars, chkVars, resolver, ctxDone, rpcClient, rpcReady, shutdown,
                 shutdownLock, sdPc, scPc, logPc, tearLog, fault>>

\* logFromPubsub: select, case <-mon.ctx.Done(): return
LogSelectDone ==
  /\ fault = "none"
  /\ logPc = "loop"
  /\ ctxDone
  /\ logPc' = "done"
  /\ UNCHANGED <<now, apiVars, histVars, storeVars, chkVars, resolver, watchVars, rpcClient, rpcReady, shutdown,
                 shutdownLock, sdPc, scPc, runPc, tearLog, fault>>

\* logFromPubsub: select, default: the loop calls subscription.Next(ctx).
LogSelectDefault ==
  /\ fault = "none"
  /\ logPc = "loop"
  /\ ~ctxDone
  /\ logPc' = "next"
  /\ UNCHANGED <<now, apiVars, histVars, storeVars, chkVars, resolver, watchVars, rpcClient, rpcReady, shutdown,
                 shutdownLock, sdPc, scPc, runPc, tearLog, fault>>

\* The handling of a message as it would be with "return" for "continue" on
\* a decode error.
LogNextReturnOnBad(b) ==
  /\ fault = "none"
  /\ logPc = "next"
  /\ LET d == Decode(b) IN
       IF d.err
         THEN /\ UNCHANGED storeVars
              /\ recvLog' = IF recvLog = "none" THEN "bad" ELSE recvLog
              /\ logPc' = "done"
         ELSE /\ nAdds < MaxAdds
              /\ metrics' = LogMetric(metrics, d.metric)
              /\ nAdds' = nAdds + 1
              /\ lastAdded' = [lastAdded EXCEPT ![d.metric.Peer][d.metric.Name] = <<d.metric>>]
              /\ recvLog' = IF recvLog = "bad" THEN "stored" ELSE recvLog
              /\ logPc' = "loop"
  /\ UNCHANGED <<now, apiVars, tickLog, chkVars, resolver, watchVars, rpcClient, rpcReady, shutdown,
                 shutdownLock, sdPc, scPc, runPc, tearLog, fault>>

\* logFromPubsub: Next returns the message b; it is decoded and, unless the
\* decoding fails, handed to LogMetric.  Next picks between a waiting message
\* and the cancellation, so a message can still come out after the cancel.
LogNext(b) ==
  /\ fault = "none"
  /\ logPc = "next"
  /\ LET d == Decode(b) IN
       IF d.err
         THEN /\ UNCHANGED storeVars
              /\ recvLog' = IF recvLog = "none" THEN "bad" ELSE recvLog
         ELSE /\ nAdds < MaxAdds
              /\ metrics' = LogMetric(metrics, d.metric)
              /\ nAdds' = nAdds + 1
              /\ lastAdded' = [lastAdded EXCEPT ![d.metric.Peer][d.metric.Name] = <<d.metric>>]
              /\ recvLog' = IF recvLog = "bad" THEN "stored" ELSE recvLog
  /\ logPc' = "loop"
  /\ UNCHANGED <<now, apiVars, tickLog, chkVars, resolver, watchVars, rpcClient, rpcReady, shutdown,
                 shutdownLock, sdPc, scPc, runPc, tearLog, fault>>

\* The failing Next as it would be with the call in a loop of its own, retried
\* until it succeeds.
LogNextErrRetry ==
  /\ fault = "none"
  /\ logPc = "next"
  /\ ctxDone
  /\ logPc' = "next"
  /\ UNCHANGED <<now, apiVars, histVars, storeVars, chkVars, resolver, watchVars, rpcClient, rpcReady, shutdown,
                 shutdownLock, sdPc, scPc, runPc, tearLog, fault>>

\* logFromPubsub: Next returns an error because the context is cancelled;
\* "continue" takes the loop back to its select.
LogNextErr ==
  /\ fault = "none"
  /\ logPc = "next"
  /\ ctxDone
  /\ logPc' = "loop"
  /\ UNCHANGED <<now, apiVars, histVars, storeVars, chkVars, resolver, watchVars, rpcClient, rpcReady, shutdown,
                 shutdownLock, sdPc, scPc, runPc, tearLog, fault>>

\* Watch's ticker case inside the Monitor: peersF is mon.getPeers, which calls
\* through mon.rpcClient (a nil client is dereferenced); res is the answer of
\* the ConsensusPeers call.
MonWatchTick(res, ord) ==
  /\ fault = "none"
  /\ watchPc = "select"
  /\ IF rpcClient = "nil"
       THEN /\ fault' = "nil pointer dereference"
            /\ UNCHANGED alertCh
       ELSE /\ alertCh' = WatchIteration(res, ord, alertCh)
            /\ UNCHANGED fault
  /\ UNCHANGED <<now, apiVars, histVars, storeVars, ck, resolver, watchVars, rpcClient, rpcReady, shutdown,
                 shutdownLock, sdPc, scPc, runPc, logPc, tearLog>>

\* SetClient: mon.rpcClient = c
ScStore(c) ==
  /\ fault = "none"
  /\ scPc[c] = "idle"
  /\ \A j \in 1..(c - 1) : scPc[j] # "idle"
  /\ rpcClient' = "client"
  /\ scPc' = [scPc EXCEPT ![c] = "send"]
  /\ UNCHANGED <<now, apiVars, histVars, storeVars, chkVars, resolver, watchVars, rpcReady, shutdown,
                 shutdownLock, sdPc, runPc, logPc, tearLog, fault>>

\* The send as it would be on an unbuffered rpcReady: it waits for run() to be
\* at its select.
ScSendUnbuffered(c) ==
  /\ fault = "none"
  /\ scPc[c] = "send"
  /\ IF rpcReady.closed
       THEN /\ fault' = "send on closed channel"
            /\ UNCHANGED <<rpcReady, scPc>>
       ELSE /\ runPc = "wait"
            /\ rpcReady.buf < 1
            /\ rpcReady' = [rpcReady EXCEPT !.buf = @ + 1]
            /\ scPc' = [scPc EXCEPT ![c] = "ret"]
            /\ UNCHANGED fault
  /\ UNCHANGED <<now, apiVars, histVars, storeVars, chkVars, resolver, watchVars, rpcClient, shutdown,
                 shutdownLock, sdPc, runPc, logPc, tearLog>>

\* SetClient: mon.rpcReady <- struct{}{}.  It blocks while the buffer is full
\* and panics on a closed channel.
ScSend(c) ==
  /\ fault = "none"
  /\ scPc[c] = "send"
  /\ IF rpcReady.closed
       THEN /\ fault' = "send on closed channel"
            /\ UNCHANGED <<rpcReady, scPc>>
       ELSE /\ rpcReady.buf < 1
            /\ rpcReady' = [rpcReady EXCEPT !.buf = @ + 1]
            /\ scPc' = [scPc EXCEPT ![c] = "ret"]
            /\ UNCHANGED fault
  /\ UNCHANGED <<now, apiVars, histVars, storeVars, chkVars, resolver, watchVars, rpcClient, shutdown,
                 shutdownLock, sdPc, runPc, logPc, tearLog>>

\* The Monitor is Running: the resolver is bound and run() has started both
\* background loops, which have not exited.
Running ==
  /\ rpcClient # "nil"
  /\ runPc = "done"
  /\ logPc \in {"loop", "next"}
  /\ watchPc = "select"

\* Shutdown: Lock(); mon.shutdown is set: warn, return nil (Unlock deferred).
SdAgain(c) ==
  /\ fault = "none"
  /\ sdPc[c] = "idle"
  /\ \A j \in 1..(c - 1) : sdPc[j] # "idle"
  /\ shutdownLock = 0
  /\ shutdown
  /\ sdPc' = [sdPc EXCEPT ![c] = "ret"]
  /\ UNCHANGED <<now, apiVars, histVars, storeVars, chkVars, resolver, watchVars, rpcClient, rpcReady, shutdown,
                 shutdownLock, scPc, runPc, logPc, tearLog, fault>>

\* Shutdown: Lock(); mon.shutdown is not set: close(mon.rpcReady).
SdClose(c) ==
  /\ fault = "none"
  /\ sdPc[c] = "idle"
  /\ \A j \in 1..(c - 1) : sdPc[j] # "idle"
  /\ shutdownLock = 0
  /\ ~shutdown
  /\ shutdownLock' = c
  /\ IF rpcReady.closed
       THEN /\ fault' = "close of closed channel"
            /\ UNCHANGED <<rpcReady, sdPc, tearLog>>
       ELSE /\ rpcReady' = [rpcReady EXCEPT !.closed = TRUE]
            /\ sdPc' = [sdPc EXCEPT ![c] = "closed"]
            /\ tearLog' = Append(tearLog, [op |-> "close", by |-> c, running |-> Running])
            /\ UNCHANGED fault
  /\ UNCHANGED <<now, apiVars, histVars, storeVars, chkVars, resolver, watchVars, rpcClient, shutdown,
                 scPc, runPc, logPc>>

\* Shutdown: mon.cancel()
SdCancel(c) ==
  /\ fault = "none"
  /\ sdPc[c] = "closed"
  /\ ctxDone' = TRUE
  /\ sdPc' = [sdPc EXCEPT ![c] = "cancelled"]
  /\ tearLog' = Append(tearLog, [op |-> "cancel", by |-> c, running |-> Running])
  /\ UNCHANGED <<now, apiVars, histVars, storeVars, chkVars, resolver, watchPc, rpcClient, rpcReady, shutdown,
                 shutdownLock, scPc, runPc, logPc, fault>>

\* Shutdown's last step as it would be without "mon.shutdown = true".
SdWaitReturnNoFlag(c) ==
  /\ fault = "none"
  /\ sdPc[c] = "cancelled"
  /\ wg = 0
  /\ shutdownLock' = 0
  /\ sdPc' = [sdPc EXCEPT ![c] = "ret"]
  /\ UNCHANGED <<now, apiVars, histVars, storeVars, chkVars, resolver, watchVars, rpcClient, rpcReady, shutdown,
                 scPc, runPc, logPc, tearLog, fault>>

\* Shutdown: mon.wg.Wait(); mon.shutdown = true; return nil (Unlock deferred).
SdWaitReturn(c) ==
  /\ fault = "none"
  /\ sdPc[c] = "cancelled"
  /\ wg = 0
  /\ shutdown' = TRUE
  /\ shutdownLock' = 0
  /\ sdPc' = [sdPc EXCEPT ![c] = "ret"]
  /\ UNCHANGED <<now, apiVars, histVars, storeVars, chkVars, resolver, watchVars, rpcClient, rpcReady,
                 scPc, runPc, logPc, tearLog, fault>>

\* mon.LogMetric(m) called by the owning system.
LogMetricCall(m) ==
  /\ fault = "none"
  /\ ~pub.pending /\ ~lat.pending
  /\ nAdds < MaxAdds
  /\ metrics' = LogMetric(metrics, m)
  /\ nAdds' = nAdds + 1
  /\ lastAdded' = [lastAdded EXCEPT ![m.Peer][m.Name] = <<m>>]
  /\ UNCHANGED <<now, apiVars, histVars, chkVars, resolver, watchVars, monVars>>

\* Metric.Discard(): the metric is structurally invalid, its kind or its peer
\* is missing.
Discard(m) == m.Name = "" \/ m.Peer = ""

\* PublishMetric as it would be without the test of m.Discard().
PublishMetricNoDiscard(tp, m, encFails, pubFails) ==
  IF encFails THEN [topic |-> tp, err |-> ErrEncode]
  ELSE IF pubFails THEN [topic |-> tp, err |-> ErrPublish]
  ELSE [topic |-> Append(tp, Encode(m)), err |-> NoErr]

\* Monitor.PublishMetric(m) with tp published so far; encFails and pubFails
\* say whether enc.Encode and pubsub.Publish return an error.
PublishMetric(tp, m, encFails, pubFails) ==
  IF Discard(m) THEN [topic |-> tp, err |-> NoErr]
  ELSE IF encFails THEN [topic |-> tp, err |-> ErrEncode]
  ELSE IF pubFails THEN [topic |-> tp, err |-> ErrPublish]
  ELSE [topic |-> Append(tp, Encode(m)), err |-> NoErr]

\* The metrics the owning system hands to PublishMetric: kind or peer may be
\* missing.
PublishInputs(t) ==
  {NewMetric(k, p, v, ttl, t) : k \in {"", "ping"}, p \in {"", "p1"}, v \in BOOLEAN, ttl \in TTLs}

\* mon.PublishMetric(m) called by the owning system; the call and its return
\* are two steps of the caller with nothing in between.
PublishMetricCall(m, encFails, pubFails) ==
  /\ fault = "none"
  /\ ~pub.pending /\ ~lat.pending
  /\ LET r == PublishMetric(topic, m, encFails, pubFails) IN
       /\ Len(r.topic) <= MaxPublish
       /\ topic' = r.topic
       /\ pub' = [pending |-> TRUE, m |-> m, encFails |-> encFails, pubFails |-> pubFails,
                  before |-> topic, err |-> r.err]
  /\ UNCHANGED <<now, lat, histVars, storeVars, chkVars, resolver, watchVars, monVars>>

PublishMetricReturn ==
  /\ fault = "none"
  /\ pub.pending
  /\ pub' = NoPublish
  /\ UNCHANGED <<now, topic, lat, histVars, storeVars, chkVars, resolver, watchVars, monVars>>

\* util.PeersetFilter: the metrics whose peer is in peers.
PeersetFilter(ms, peers) == {m \in ms : m.Peer \in Range(peers)}

\* LatestMetrics as it would be without the filter.
LatestMetricsNoFilter(st, name, t, res) ==
  IF res.err THEN {} ELSE StoreLatest(st, name, t)

\* Monitor.LatestMetrics(name) at time t, with res the answer of getPeers.
LatestMetrics(st, name, t, res) ==
  LET latest == StoreLatest(st, name, t) IN
    IF res.err THEN {} ELSE PeersetFilter(latest, res.peers)

\* What getPeers can return to LatestMetrics: a peer list, or an error with
\* whatever the call left in peers.
ApiResolverResults == ResolverResults \cup {[peers |-> <<"p1">>, err |-> TRUE]}

\* mon.LatestMetrics(name) called by the owning system.  getPeers calls
\* through mon.rpcClient: a nil client is dereferenced.
LatestMetricsCall(name, res) ==
  /\ fault = "none"
  /\ ~pub.pending /\ ~lat.pending
  /\ IF rpcClient = "nil"
       THEN /\ fault' = "nil pointer dereference"
            /\ UNCHANGED lat
       ELSE /\ lat' = [pending |-> TRUE, name |-> name, res |-> res,
                       store |-> metrics, alerts |-> alertCh,
                       out |-> LatestMetrics(metrics, name, now, res)]
            /\ UNCHANGED fault
  /\ UNCHANGED <<now, topic, pub, histVars, storeVars, chkVars, resolver, watchVars,
                 rpcClient, rpcReady, shutdown, shutdownLock, sdPc, scPc, runPc, logPc, tearLog>>

LatestMetricsReturn ==
  /\ fault = "none"
  /\ lat.pending
  /\ lat' = NoLatest
  /\ UNCHANGED <<now, topic, pub, histVars, storeVars, chkVars, resolver, watchVars, monVars>>

\* ------------------------------------------------------------------ Init
\* The util package on its own: NewMetricStore, NewMetricsChecker, no Monitor.
InitUtil ==
  /\ now = 0
  /\ metrics = NewMetricStore
  /\ nAdds = 0
  /\ lastAdded = [p \in Peers |-> [k \in Kinds |-> <<>>]]
  /\ alertCh = NewMetricsChecker
  /\ ck = NoCall
  /\ resolver = [peers |-> <<>>, err |-> FALSE]
  /\ ctxDone = FALSE
  /\ watchPc = "off"
  /\ rpcClient = "nil"
  /\ rpcReady = [buf |-> 0, closed |-> FALSE]
  /\ shutdown = FALSE
  /\ shutdownLock = 0
  /\ sdPc = [c \in 1..NumShutdown |-> "idle"]
  /\ scPc = [c \in 1..NumSetClient |-> "idle"]
  /\ runPc = "off"
  /\ logPc = "off"
  /\ tearLog = <<>>
  /\ fault = "none"
  /\ topic = <<>>
  /\ pub = NoPublish
  /\ lat = NoLatest
  /\ recvLog = "none"
  /\ tickLog = "none"

\* New(): store, checker and the buffered rpcReady are created, the run()
\* goroutine is spawned.
Init ==
  /\ now = 0
  /\ metrics = NewMetricStore
  /\ nAdds = 0
  /\ lastAdded = [p \in Peers |-> [k \in Kinds |-> <<>>]]
  /\ alertCh = NewMetricsChecker
  /\ ck = NoCall
  /\ resolver = [peers |-> <<>>, err |-> FALSE]
  /\ ctxDone = FALSE
  /\ watchPc = "off"
  /\ rpcClient = "nil"
  /\ rpcReady = [buf |-> 0, closed |-> FALSE]
  /\ shutdown = FALSE
  /\ shutdownLock = 0
  /\ sdPc = [c \in 1..NumShutdown |-> "idle"]
  /\ scPc = [c \in 1..NumSetClient |-> "idle"]
  /\ runPc = "start"
  /\ logPc = "off"
  /\ tearLog = <<>>
  /\ fault = "none"
  /\ topic = <<>>
  /\ pub = NoPublish
  /\ lat = NoLatest
  /\ recvLog = "none"
  /\ tickLog = "none"

\* What the ConsensusPeers call can answer.
MonResolverResults == {[peers |-> <<"p1">>, err |-> FALSE], [peers |-> <<>>, err |-> TRUE]}

\* The Monitor with its callers and background tasks.  The clock stands still
\* here: an inbound metric is fresh or already expired on arrival.
Next ==
  \/ \E c \in 1..NumShutdown : SdAgain(c) \/ SdClose(c) \/ SdCancel(c) \/ SdWaitReturn(c)
  \/ \E c \in 1..NumSetClient : ScStore(c) \/ ScSend(c)
  \/ RunStart
  \/ RunRecv
  \/ RunCancelled
  \/ RunGoLog
  \/ RunGoWatch
  \/ LogSelectDone
  \/ LogSelectDefault
  \/ \E m \in InboundMetrics(now) : LogNext(Encode(m))
  \/ LogNextErr
  \/ \E res \in MonResolverResults, ord \in [Peers -> KindOrders] : MonWatchTick(res, ord)
  \/ WatchReturn
  \/ \E m \in InboundMetrics(now) : LogMetricCall(m)
  \/ ReadAlert

Spec == Init /\ [][Next]_vars

\* The Monitor's tasks and its callers again, with a transport that also
\* delivers payloads that do not decode, and one peer's reports.
NextLife ==
  \/ \E c \in 1..NumShutdown : SdAgain(c) \/ SdClose(c) \/ SdCancel(c) \/ SdWaitReturn(c)
  \/ \E c \in 1..NumSetClient : ScStore(c) \/ ScSend(c)
  \/ RunStart
  \/ RunRecv
  \/ RunCancelled
  \/ RunGoLog
  \/ RunGoWatch
  \/ LogSelectDone
  \/ LogSelectDefault
  \/ \E b \in LifeInbound(now) : LogNext(b)
  \/ LogNextErr
  \/ \E res \in MonResolverResults, ord \in [Peers -> KindOrders] : MonWatchTick(res, ord)
  \/ WatchReturn

SpecLife == Init /\ [][NextLife]_vars

\* Every goroutine that can take a step is scheduled: run(), the receive
\* loop (whose Next returns once the context is done), the Watch loop, and
\* the callers inside SetClient and Shutdown.
FairSpecLife ==
  /\ SpecLife
  /\ WF_vars(RunStart) /\ WF_vars(RunRecv) /\ WF_vars(RunCancelled)
  /\ WF_vars(RunGoLog) /\ WF_vars(RunGoWatch)
  /\ WF_vars(LogSelectDone) /\ WF_vars(LogNextErr)
  /\ WF_vars(WatchReturn)
  /\ \A c \in 1..NumSetClient : WF_vars(ScSend(c))
  /\ \A c \in 1..NumShutdown : WF_vars(SdCancel(c)) /\ WF_vars(SdWaitReturn(c))

NextChecker ==
  \/ Tick
  \/ \E m \in MetricInputs(now) : Add(m)
  \/ \E peers \in PeerLists, ord \in [Peers -> KindOrders] : CheckMetricsCall(peers, ord)
  \/ CheckMetricsReturn
  \/ ReadAlert

SpecChecker == InitUtil /\ [][NextChecker]_vars

\* Sweep after sweep over the reports of one kind.  A report can be stale on
\* arrival (ttl 0) or live for one tick of the clock.
SweepMetricInputs(t) ==
  {NewMetric(k, p, TRUE, ttl, t) : k \in {"ping"}, p \in Peers, ttl \in {0, 1}}

NextSweeps ==
  \/ Tick
  \/ \E m \in SweepMetricInputs(now) : Add(m)
  \/ \E peers \in PeerLists, ord \in [Peers -> KindOrders] : CheckMetricsCall(peers, ord)
  \/ CheckMetricsReturn
  \/ ReadAlert

SpecSweeps == InitUtil /\ [][NextSweeps]_vars

\* The Watch loop of the util package on its own, as its test runs it: the
\* caller hands it a context and a resolver function.
WatchKinds == {"ping"}
WatchMetricInputs(t) ==
  {NewMetric(k, p, v, ttl, t) : k \in WatchKinds, p \in Peers, v \in BOOLEAN, ttl \in TTLs}
WatchResolverResults ==
  {[peers |-> <<"p1">>, err |-> FALSE], [peers |-> <<"p2", "p1">>, err |-> FALSE],
   [peers |-> <<>>, err |-> TRUE]}

NextWatch ==
  \/ Tick
  \/ \E m \in WatchMetricInputs(now) : Add(m)
  \/ \E r \in WatchResolverResults : ResolverSet(r)
  \/ WatchCall
  \/ \E ord \in [Peers -> KindOrders] : WatchTickPlain(ord)
  \/ WatchReturn
  \/ CtxCancel
  \/ ReadAlert

SpecWatch == InitUtil /\ [][NextWatch]_vars

\* The Watch loop with a resolver that fails now and then, with or without a
\* peer list beside its error, and the history of its ticks.
WatchLogResolverResults ==
  {[peers |-> <<"p1">>, err |-> FALSE], [peers |-> <<>>, err |-> TRUE],
   [peers |-> <<"p1">>, err |-> TRUE]}

NextWatchLog ==
  \/ Tick
  \/ \E m \in WatchMetricInputs(now) : Add(m)
  \/ \E r \in WatchLogResolverResults : ResolverSet(r)
  \/ WatchCall
  \/ \E ord \in [Peers -> KindOrders] : WatchTickLogged(ord)
  \/ WatchReturn
  \/ CtxCancel
  \/ ReadAlert

SpecWatchLog == InitUtil /\ [][NextWatchLog]_vars

\* The goroutine running Watch is scheduled, and its select takes each case
\* that stays ready: the cancellation once the context is done, the ticker as
\* long as the loop runs.
FairSpecWatch ==
  /\ SpecWatch
  /\ WF_vars(WatchReturn)
  /\ WF_vars(\E ord \in [Peers -> KindOrders] : WatchTickPlain(ord))

\* PublishMetric called by the owning system, again and again.
NextPublish ==
  \/ Tick
  \/ \E m \in PublishInputs(now), encFails, pubFails \in BOOLEAN : PublishMetricCall(m, encFails, pubFails)
  \/ PublishMetricReturn

SpecPublish == Init /\ [][NextPublish]_vars

\* LatestMetrics called by the owning system, which binds the client and
\* logs metrics as well.
NextLatest ==
  \/ Tick
  \/ \E c \in 1..NumSetClient : ScStore(c) \/ ScSend(c)
  \/ \E m \in WatchMetricInputs(now) : LogMetricCall(m)
  \/ \E name \in Kinds, res \in ApiResolverResults : LatestMetricsCall(name, res)
  \/ LatestMetricsReturn

SpecLatest == Init /\ [][NextLatest]_vars

\* ================================================================ claims
Returned(c) == sdPc[c] = "ret"

\* C1: on a Running monitor, Shutdown() does not return until both background
\* tasks have exited: whenever a Shutdown() call has returned after a teardown
\* that began on a Running monitor, the receive loop and the Watch loop are
\* both done.
C1_ShutdownWaitsForLoops ==
  (tearLog # <<>> /\ tearLog[1].running /\ \E c \in 1..NumShutdown : Returned(c))
    => (logPc = "done" /\ watchPc = "done")

\* C2: when SetClient was never called, Shutdown() stops the monitor without
\* the receive loop or the Watch loop ever being started.
C2_NoLoopsWithoutClient ==
  (\A c \in 1..NumSetClient : scPc[c] = "idle")
    => (logPc = "off" /\ watchPc = "off")

\* C3: Shutdown() is idempotent: no call closes the closed channel, the
\* teardown steps (close of rpcReady, cancel) run at most once each, both by
\* the call that took the lock first, and every call that has returned did so
\* after the whole teardown.
C3_ShutdownIdempotent ==
  /\ fault # "close of closed channel"
  /\ Len(tearLog) <= 2
  /\ \A i \in 1..Len(tearLog) :
       /\ tearLog[i].op = <<"close", "cancel">>[i]
       /\ tearLog[i].by = 1
  /\ \A c \in 1..NumShutdown : Returned(c) => (Len(tearLog) = 2 /\ shutdown /\ rpcReady.closed /\ ctxDone)

\* C3 witness: two Shutdown() calls have returned.
C3_Witness ==
  /\ \A c \in 1..NumShutdown : Returned(c)
  /\ Len(tearLog) = 2
  /\ NumShutdown >= 2

\* C10 as stated: every metric held in the store has Valid = TRUE.
C10_StoredMetricsValid ==
  \A p \in Peers, k \in Kinds : \A i \in 1..Len(metrics[p][k]) : metrics[p][k][i].Valid

\* C10 amended: LogMetric, called directly or by the receive loop on a decoded
\* message, stores the metric as it is, valid or not: afterwards it is the
\* newest entry of its (peer, kind) window and no other window has changed.
StoredAsHanded(m) ==
  /\ metrics'[m.Peer][m.Name] # <<>>
  /\ WindowLatest(metrics'[m.Peer][m.Name]) = m
  /\ \A p \in Peers, k \in Kinds : (p # m.Peer \/ k # m.Name) => metrics'[p][k] = metrics[p][k]

C10_LogMetricStoresAsHanded ==
  [][\A m \in InboundMetrics(now) :
       (LogMetricCall(m) \/ LogNext(Encode(m))) => StoredAsHanded(m)]_vars

\* C10 witness: the newest metric of some window is invalid.
C10_Witness ==
  \E p \in Peers, k \in Kinds : metrics[p][k] # <<>> /\ ~WindowLatest(metrics[p][k]).Valid

\* C13: the receive loop and the Watch loop are each started at most once:
\* a go statement of run() is only ever executed while its loop has never
\* run, and a loop that has been started is never back in that condition.
C13_LoopsStartedOnce ==
  [][/\ RunGoLog => logPc = "off"
     /\ RunGoWatch => watchPc = "off"
     /\ logPc # "off" => logPc' # "off"
     /\ watchPc # "off" => watchPc' # "off"]_vars

\* C13 witness: two SetClient calls have returned and both loops run.
C13_Witness ==
  /\ NumSetClient >= 2
  /\ \A c \in 1..NumSetClient : scPc[c] = "ret"
  /\ logPc \in {"loop", "next"}
  /\ watchPc = "select"

\* C15: in the receive loop a payload that fails to decode leaves the store
\* as it is and takes the loop back to its select; the loop ends on a
\* cancelled context only, so that after such a payload every message that
\* decodes is stored as LogMetric stores it.
C15_BadMessageSkipped ==
  /\ [](logPc = "done" => ctxDone)
  /\ [][/\ LogNext(Garbage) => (metrics' = metrics /\ logPc' = "loop")
        /\ \A m \in LifeMetrics(now) :
             (recvLog # "none" /\ LogNext(Encode(m))) => (StoredAsHanded(m) /\ logPc' = "loop")]_vars

\* C15 witness: a payload failed to decode, a later message was stored, and
\* the loop goes on.
C15_Witness ==
  /\ recvLog = "stored"
  /\ logPc = "loop"
  /\ ~ctxDone

\* C16: once the context is cancelled a running receive loop exits, unless a
\* panic ends the process first: a Next that fails on the cancelled context
\* stores nothing and takes the loop to its select, where it returns.
C16_ReceiveLoopExits ==
  /\ (ctxDone /\ logPc \in {"loop", "next"}) ~> (logPc = "done" \/ fault # "none")
  /\ [][LogNextErr => (metrics' = metrics /\ nAdds' = nAdds /\ logPc' = "loop")]_vars

\* C16 witness: the cancel of Shutdown met a running receive loop, which has
\* exited.
C16_Witness ==
  /\ Len(tearLog) = 2
  /\ tearLog[2].op = "cancel"
  /\ tearLog[2].running
  /\ logPc = "done"
  /\ fault = "none"

\* C18: no background task calls getPeers while no client is bound: the
\* nil rpcClient is never called through.
C18_NoGetPeersUnbound == fault # "nil pointer dereference"

\* C19: SetClient never sends on rpcReady after Shutdown() has closed it.
C19_NoSendOnClosed == fault # "send on closed channel"

\* C20: once SetClient or Shutdown() has been called, run() exits, unless a
\* panic ends the process first; and the first SetClient on a monitor whose
\* rpcReady is open can always complete its send, wherever run() is.
C20_RunExits ==
  /\ ((\E c \in 1..NumSetClient : scPc[c] # "idle") \/ (\E c \in 1..NumShutdown : sdPc[c] # "idle"))
       ~> (runPc = "done" \/ fault # "none")
  /\ []((/\ fault = "none"
         /\ scPc[1] = "send"
         /\ \A c \in 2..NumSetClient : scPc[c] = "idle"
         /\ ~rpcReady.closed) => ENABLED ScSend(1))

\* C20 witness: the first SetClient has returned, its value waiting in the
\* buffer, before run() reached its select.
C20_Witness ==
  /\ scPc[1] = "ret"
  /\ runPc = "start"
  /\ rpcReady = [buf |-> 1, closed |-> FALSE]

\* ------------------------------------------------ claims on the checker
\* These are stated on the state in which a direct CheckMetrics call is
\* returning: ck holds the call, and the store and the clock are as the call
\* saw them.
IsAlertable(m, t) == m.Valid /\ Expired(m, t)

\* The (peer, kind) pairs, for the peers in P, whose newest stored metric is
\* valid and expired.
Alertable(P) ==
  {pk \in P \X Kinds : metrics[pk[1]][pk[2]] # <<>>
                       /\ IsAlertable(WindowLatest(metrics[pk[1]][pk[2]]), now)}

\* The alerts the channel gained in the call.
Gained == SubSeq(alertCh, Len(ck.before) + 1, Len(alertCh))
KeptPrefix == Len(alertCh) >= Len(ck.before) /\ SubSeq(alertCh, 1, Len(ck.before)) = ck.before

\* C4: a CheckMetrics(peers) sweep over a duplicate-free peer list, with room
\* in the alert channel for all its alerts, appends exactly one alert
\* {P, kind} for each P in peers and kind whose newest stored metric is valid
\* and expired, and no other alert.
C4_SweepAlertsExactlyExpiredValid ==
  (/\ ck.pending
   /\ NoDup(ck.peers)
   /\ Cardinality(Alertable(Range(ck.peers))) <= AlertChannelCap - Len(ck.before))
  => /\ KeptPrefix
     /\ Len(Gained) = Cardinality(Alertable(Range(ck.peers)))
     /\ {<<Gained[i].Peer, Gained[i].MetricName>> : i \in 1..Len(Gained)} = Alertable(Range(ck.peers))

\* C4 witness: a sweep over <<p1>> has put one alert, for p1, in the empty
\* channel, while p1 or p2 holds a metric that is not alertable and p2 holds a
\* valid expired one.
C4_Witness ==
  /\ ck.pending
  /\ ck.peers = <<"p1">>
  /\ ck.before = <<>>
  /\ Len(alertCh) = 1
  /\ alertCh[1].Peer = "p1"
  /\ Alertable({"p2"}) # {}

\* C5: the alert channel never holds more than AlertChannelCap alerts; a sweep
\* that starts on a full channel and has an alert to raise returns
\* ErrAlertChannelFull and leaves the channel as it was; and on a full
\* channel a caller can always run such a sweep to its end (it never waits for
\* the reader).
C5_AlertQueueBounded ==
  /\ Len(alertCh) <= AlertChannelCap
  /\ (ck.pending /\ Len(ck.before) = AlertChannelCap /\ Alertable(Range(ck.peers)) # {})
       => (ck.err = ErrAlertChannelFull /\ alertCh = ck.before)
  /\ (~ck.pending /\ Len(alertCh) = AlertChannelCap)
       => \A peers \in PeerLists, ord \in [Peers -> KindOrders] :
            Alertable(Range(peers)) # {} => ENABLED CheckMetricsCall(peers, ord)

\* C5 witness: a sweep that started on a full channel was turned away.
C5_Witness ==
  /\ ck.pending
  /\ Len(ck.before) = AlertChannelCap
  /\ ck.err = ErrAlertChannelFull

\* The number of entries of s equal to x.
Count(s, x) == Cardinality({i \in 1..Len(s) : s[i] = x})

RECURSIVE SweepList(_, _)
SweepList(peers, ord) ==
  IF peers = <<>> THEN <<>>
  ELSE StorePeerMetrics(metrics, Head(peers), ord[Head(peers)]) \o SweepList(Tail(peers), ord)

AlertableIn(L) == SelectSeq(L, LAMBDA m : IsAlertable(m, now))
AlertOf(m) == [Peer |-> m.Peer, MetricName |-> m.Name]

\* C6: CheckMetrics(peers) returns an error exactly when the sweep holds more
\* alertable metrics than the channel has room for; it then has examined the
\* metrics up to the first one that did not fit and no later one, and the
\* channel holds what it held plus the alerts that did fit.
C6_ErrorIffFullAndStops ==
  ck.pending =>
    LET L    == SweepList(ck.peers, ck.ord)
        E    == AlertableIn(L)
        room == AlertChannelCap - Len(ck.before)
    IN  /\ ck.err \in {NoErr, ErrAlertChannelFull}
        /\ (ck.err = ErrAlertChannelFull) <=> (Len(E) > room)
        /\ ck.err = ErrAlertChannelFull =>
             /\ alertCh = ck.before \o [i \in 1..room |-> AlertOf(E[i])]
             /\ ck.seen <= Len(L)
             /\ IsAlertable(L[ck.seen], now)
             /\ Len(AlertableIn(SubSeq(L, 1, ck.seen))) = room + 1

\* C6 witness: a sweep put an alert in the channel and was stopped at its next
\* alert, with a metric of the sweep left unexamined.
C6_Witness ==
  /\ ck.pending
  /\ ck.err = ErrAlertChannelFull
  /\ Len(alertCh) > Len(ck.before)
  /\ ck.seen < Len(SweepList(ck.peers, ck.ord))

\* C9: Latest(kind) holds a metric of peer P exactly when the metric added
\* last for (P, kind) has not expired, and then it is that metric.
C9_LatestIffNotExpired ==
  \A k \in Kinds, p \in Peers :
    LET got == {m \in StoreLatest(metrics, k, now) : m.Peer = p} IN
      /\ (got # {}) <=> (lastAdded[p][k] # <<>> /\ ~Expired(lastAdded[p][k][1], now))
      /\ got # {} => got = {lastAdded[p][k][1]}

\* C9 witness: a peer's report expired, and a fresh report brought it back.
C9_Witness ==
  \E k \in Kinds, p \in Peers :
    /\ Len(metrics[p][k]) = 2
    /\ Expired(metrics[p][k][1], now)
    /\ ~Expired(metrics[p][k][2], now)
    /\ \E m \in StoreLatest(metrics, k, now) : m.Peer = p

\* ------------------------------------------------- claims on the Watch loop
\* C7: Watch returns only after the context is done (no error of the resolver
\* or of CheckMetrics ends it), and once the context is done a running Watch
\* loop eventually returns.
C7_WatchEndsOnCancelOnly ==
  /\ [](watchPc = "done" => ctxDone)
  /\ (ctxDone /\ watchPc = "select") ~> (watchPc = "done")

\* C7 witness: Watch has returned with the alert channel full and the resolver
\* failing.
C7_Witness ==
  /\ watchPc = "done"
  /\ Len(alertCh) = AlertChannelCap
  /\ resolver.err

AlertQueued(p, k) == \E i \in 1..Len(alertCh) : alertCh[i] = [Peer |-> p, MetricName |-> k]

\* The Watch loop runs, the newest metric of (p, k) is valid and expired, the
\* resolver answers a peer list with p in it, and the channel has room.
WatchShouldAlert(p, k) ==
  /\ watchPc = "select"
  /\ ~ctxDone
  /\ <<p, k>> \in Alertable({p})
  /\ ~resolver.err
  /\ p \in Range(resolver.peers)
  /\ Len(alertCh) < AlertChannelCap

\* C8: while the Watch loop runs, the newest metric of (P, kind) is valid and
\* expired, the resolver keeps answering a peer set with P in it and the alert
\* channel has room, an alert {P, kind} eventually sits in the channel for a
\* reader of Alerts(), unless one of these conditions ends first.
C8_WatchEventuallyAlerts ==
  \A p \in Peers, k \in WatchKinds :
    WatchShouldAlert(p, k) ~> (AlertQueued(p, k) \/ ~WatchShouldAlert(p, k))

\* C8 witness: the loop runs and the alert for an expired valid metric of a
\* resolved peer is in the channel.
C8_Witness ==
  \E p \in Peers, k \in Kinds :
    /\ watchPc = "select"
    /\ ~ctxDone
    /\ <<p, k>> \in Alertable({p})
    /\ p \in Range(resolver.peers)
    /\ AlertQueued(p, k)

\* ------------------------------------------- claims on the Monitor's calls
\* C11: PublishMetric(m) on a metric with an empty kind or an empty peer
\* publishes nothing and returns nil; for any other metric it returns the
\* error of the encoder or of the transport if one of them fails, publishing
\* nothing, and otherwise publishes the one encoding of m and returns nil.
C11_PublishDiscardsOrSends ==
  pub.pending =>
    IF pub.m.Name = "" \/ pub.m.Peer = ""
      THEN topic = pub.before /\ pub.err = NoErr
      ELSE /\ pub.encFails => (pub.err = ErrEncode /\ topic = pub.before)
           /\ (~pub.encFails /\ pub.pubFails) => (pub.err = ErrPublish /\ topic = pub.before)
           /\ (~pub.encFails /\ ~pub.pubFails) =>
                (pub.err = NoErr /\ topic = Append(pub.before, Encode(pub.m)))

\* C11 witness: after a payload was published, a metric without a kind was
\* turned away with nil although the transport was failing.
C11_Witness ==
  /\ pub.pending
  /\ pub.m.Name = ""
  /\ pub.pubFails
  /\ pub.err = NoErr
  /\ Len(topic) = 1

\* C12: LatestMetrics(kind) returns exactly the entries of Latest(kind) whose
\* peer is in the list getPeers returned to it; when getPeers returns an
\* error it returns the empty result; either way the store and the alert
\* channel are as they were.
C12_LatestMetricsFiltered ==
  lat.pending =>
    /\ lat.res.err => lat.out = {}
    /\ ~lat.res.err =>
         lat.out = {m \in StoreLatest(metrics, lat.name, now) : m.Peer \in Range(lat.res.peers)}
    /\ metrics = lat.store
    /\ alertCh = lat.alerts

\* C12 witness: Latest holds a metric of p1 and one of p2, and the call, told
\* that p2 is the only peer, returned the one of p2 alone.
C12_Witness ==
  /\ lat.pending
  /\ lat.res = [peers |-> <<"p2">>, err |-> FALSE]
  /\ Cardinality(StoreLatest(metrics, lat.name, now)) = 2
  /\ Cardinality(lat.out) = 1

\* C17: a Watch tick on which the resolver returns an error, with or without
\* a peer list beside it, changes neither the alert channel nor the store and
\* leaves the loop at its select, where the next tick asks the resolver anew.
C17_FailedTickSkipped ==
  [][\A ord \in [Peers -> KindOrders] :
       (WatchTickLogged(ord) /\ resolver.err) =>
         (alertCh' = alertCh /\ metrics' = metrics /\ watchPc' = "select")]_vars

\* C17 witness: a tick was skipped on a failing resolver while a valid
\* expired metric was waiting, and a later tick, the resolver answering
\* again, has put the alert in the channel.
C17_Witness ==
  /\ tickLog = "again"
  /\ watchPc = "select"
  /\ ~resolver.err
  /\ \E p \in Range(resolver.peers), k \in WatchKinds :
       <<p, k>> \in Alertable({p}) /\ AlertQueued(p, k)

====
